---- MODULE Spec2Model ----
(***************************************************************************)
(* Model of the multimodal RAG system: the graph store (knowledge_graph.py),*)
(* the vector store (vector_db.py), the ingestion orchestrator             *)
(* (ingestion.py), the hybrid retriever / answer generator                 *)
(* (hybrid_search.py) and the application's startup (app.py).              *)
(***************************************************************************)
EXTENDS Integers, Sequences, FiniteSets, TLC

\* ------------------------------------------------------------------ bounds
MaxUpdates == 2   \* direct calls of update_graph_from_json
MaxItems == 2     \* elements of a JSON array handed to update_graph_from_json
MaxRuns == 2      \* calls of ingest_file
MaxAsks == 1      \* questions asked
MaxCalls == 3     \* calls made in a behaviour that mixes ingestion, graph updates and questions
MaxStarts == 2    \* starts of the application process

\* ------------------------------------------------------- python values
\* A Python value read from a JSON object with item.get(key): a str or None.
None == [t |-> "none"]
Str(s) == [t |-> "str", s |-> s]

\* Entity names are strings; "" is the empty string.
EntityNames == {"A", "B"}

\* Relationship strings are sequences of characters, so that
\* upper() and replace(" ", "_") are computed character by character.
RelStrings == {<<"w", " ", "f">>, <<"W", "_", "F">>, <<"i", "n">>}

\* str.upper() on one character.
UpperChar(c) ==
  CASE c = "w" -> "W"
    [] c = "f" -> "F"
    [] c = "i" -> "I"
    [] c = "n" -> "N"
    [] OTHER -> c

\* relationship.upper() without the replace: spaces stay in the type.
NormalizeRel_UpperOnly(rel) == [i \in DOMAIN rel |-> UpperChar(rel[i])]

\* relationship.upper().replace(" ", "_")
NormalizeRel(rel) ==
  [i \in DOMAIN rel |-> IF UpperChar(rel[i]) = " " THEN "_" ELSE UpperChar(rel[i])]

\* Python truthiness of the value of item.get("source") / item.get("target").
TruthyName(v) == v.t = "str" /\ v.s # ""
\* Python truthiness of the value of item.get("relationship").
TruthyRel(v) == v.t = "str" /\ v.s # <<>>

\* ------------------------------------------------------- JSON documents
\* An element of a parsed JSON array: an object (dict) or something else.
Obj(s, r, t) == [k |-> "obj", source |-> s, relationship |-> r, target |-> t]
NonObj == [k |-> "num"]

\* The elements the completion service may put in an array.
ItemPool ==
  { Obj(Str("A"), Str(<<"w", " ", "f">>), Str("B")),
    Obj(Str("A"), Str(<<"W", "_", "F">>), Str("B")),
    Obj(Str("A"), Str(<<"i", "n">>), Str("B")),
    Obj(Str(""), None, Str("B")),
    NonObj }

SeqsUpTo(S, n) == UNION {[1..m -> S] : m \in 0..n}

\* What a text can decode to: nothing (unparseable), a value that is not a
\* list, or a list of elements.
Unparseable == [k |-> "invalid"]
NotAList == [k |-> "dict"]
ListDoc(items) == [k |-> "list", items |-> items]
Docs == {Unparseable, NotAList} \cup {ListDoc(items) : items \in SeqsUpTo(ItemPool, MaxItems)}

\* Python objects handed around as "json_data": a str holding a text, or the
\* message object the chat model's invoke() returns (its text is in .content).
PyStr(doc) == [type |-> "str", text |-> doc]
AIMessage(doc) == [type |-> "AIMessage", content |-> doc]

\* ---------------------------------------------------------- graph store
\* A graph: nodes with an internal id and a name, edges with an internal id,
\* a type and the ids of their end nodes.
EmptyGraph == [nodes |-> {}, edges |-> {}, nextId |-> 1]

NodesNamed(g, name) == {n \in g.nodes : n.name = name}
EdgesOf(g, s, type, t) ==
  {e \in g.edges : /\ e.type = type
                   /\ \E a \in NodesNamed(g, s) : a.id = e.src
                   /\ \E b \in NodesNamed(g, t) : b.id = e.dst}

\* CREATE (:Entity {name: $name}): what MERGE does when nothing matches.
CreateNode(g, name) ==
  [g EXCEPT !.nodes = @ \cup {[id |-> g.nextId, name |-> name]},
            !.nextId = @ + 1]

\* A MERGE that behaves as CREATE: a node is added whether or not one matches.
MergeNode_AlwaysCreate(g, name) == CreateNode(g, name)

\* MERGE (n:Entity {name: $name})
MergeNode(g, name) ==
  IF NodesNamed(g, name) # {} THEN g ELSE CreateNode(g, name)

\* The (s, t) rows of MATCH (s:Entity {name}) MATCH (t:Entity {name}) that
\* have no edge of the type between them yet.
MissingPairs(g, s, type, t) ==
  {p \in {<<a.id, b.id>> : a \in NodesNamed(g, s), b \in NodesNamed(g, t)} :
     ~ \E e \in g.edges : e.src = p[1] /\ e.dst = p[2] /\ e.type = type}

RECURSIVE CreateEdges(_, _, _)
CreateEdges(g, pairs, type) ==
  IF pairs = {} THEN g
  ELSE LET p == CHOOSE q \in pairs : TRUE
           g1 == [g EXCEPT !.edges = @ \cup {[id |-> g.nextId, src |-> p[1],
                                              type |-> type, dst |-> p[2]]},
                           !.nextId = @ + 1]
       IN CreateEdges(g1, pairs \ {p}, type)

\* MATCH (s) MATCH (t) MERGE (s)-[r:TYPE]->(t)
MergeEdge(g, s, type, t) == CreateEdges(g, MissingPairs(g, s, type, t), type)

\* The characters of the model's relationship strings that may stand in an
\* unquoted Cypher name (letters and the underscore; not the space or "-").
NameChars == {"w", "f", "i", "n", "W", "F", "I", "N", "_"}

\* The text put after "r:" in the third statement parses as a relationship
\* type: the type is interpolated into the query unquoted.
CypherName(type) == type # <<>> /\ \A i \in DOMAIN type : type[i] \in NameChars

\* _add_relationship_tx: the three statements run in the transaction.
\* failAt = 0: no statement fails; failAt = k: statement k raises.  The result
\* carries the state of the open transaction at the point the function ends.
AddRelationshipTx(g, source, relationship, target, failAt) ==
  IF failAt = 1 THEN [raised |-> TRUE, tx |-> g]
  ELSE LET g1 == MergeNode(g, source) IN
    IF failAt = 2 THEN [raised |-> TRUE, tx |-> g1]
    ELSE LET g2 == MergeNode(g1, target) IN
      IF failAt = 3 \/ ~ CypherName(NormalizeRel(relationship))
        THEN [raised |-> TRUE, tx |-> g2]
      ELSE [raised |-> FALSE, tx |-> MergeEdge(g2, source, NormalizeRel(relationship), target)]

\* The statements run outside a transaction: what ran before the failing
\* statement stays in the graph.
ExecuteWrite_AutoCommit(g, source, relationship, target, failAt) ==
  LET r == AddRelationshipTx(g, source, relationship, target, failAt)
  IN [raised |-> r.raised, g |-> r.tx]

\* session.execute_write: commit when the function returns, roll back and
\* raise when it raises.
ExecuteWrite(g, source, relationship, target, failAt) ==
  LET r == AddRelationshipTx(g, source, relationship, target, failAt)
  IN IF r.raised THEN [raised |-> TRUE, g |-> g]
     ELSE [raised |-> FALSE, g |-> r.tx]

NoFault == [item |-> 0, stmt |-> 0]
Faults == {NoFault} \cup [item : 1..MaxItems, stmt : 1..3]

\* The loop of update_graph_from_json over the parsed list, from element i on.
\* An element without .get raises AttributeError, a failed transaction raises
\* too: both leave the loop, and what was committed before stays.
RECURSIVE UpdateLoop(_, _, _, _)
UpdateLoop(g, items, i, fault) ==
  IF i > Len(items) THEN g
  ELSE LET item == items[i] IN
    IF item.k # "obj" THEN g
    ELSE IF TruthyName(item.source) /\ TruthyRel(item.relationship) /\ TruthyName(item.target)
      THEN LET r == ExecuteWrite(g, item.source.s, item.relationship.s, item.target.s,
                                 IF fault.item = i THEN fault.stmt ELSE 0)
           IN IF r.raised THEN r.g ELSE UpdateLoop(r.g, items, i + 1, fault)
      ELSE UpdateLoop(g, items, i + 1, fault)

\* json.loads(json_data): TypeError unless json_data is a str,
\* JSONDecodeError when the text does not parse.
JsonLoads(json_data) ==
  IF json_data.type # "str" THEN [raised |-> "TypeError"]
  ELSE IF json_data.text.k = "invalid" THEN [raised |-> "JSONDecodeError"]
  ELSE [raised |-> "", data |-> json_data.text]

\* update_graph_from_json: the graph after the call.
UpdateGraphFromJson(g, json_data, fault) ==
  LET parsed == JsonLoads(json_data) IN
  IF parsed.raised # "" THEN g
  ELSE IF parsed.data.k # "list" THEN g
  ELSE UpdateLoop(g, parsed.data.items, 1, fault)

\* A triple object whose three fields are non-empty strings.
ValidTriple(item) ==
  /\ item.k = "obj"
  /\ TruthyName(item.source) /\ TruthyRel(item.relationship) /\ TruthyName(item.target)

IsListOfItems(json_data) == json_data.type = "str" /\ json_data.text.k = "list"
ItemsOf(json_data) == IF IsListOfItems(json_data) THEN json_data.text.items ELSE <<>>

\* The fault of a call hits: the element it names is a valid triple that the
\* loop reaches.
FaultHits(items, fault) ==
  /\ fault.item \in 1..Len(items)
  /\ ValidTriple(items[fault.item])
  /\ \A j \in 1..(fault.item - 1) : items[j].k = "obj"

\* --------------------------------------------------------- vector store
\* The embedding service's vector for a text.
Embed(text) == <<"emb", text>>

Min(a, b) == IF a < b THEN a ELSE b

\* The points list with enumerate(..., start=1): ids counted from 1.
BuildPoints_FromOne(vectors, chunks, metadatas) ==
  {[id |-> i, vector |-> vectors[i],
    payload |-> [text |-> chunks[i], source_file |-> metadatas[i].source_file,
                 chunk_index |-> metadatas[i].chunk_index]] :
     i \in 1..Min(Len(vectors), Min(Len(chunks), Len(metadatas)))}

\* The points list of upsert_chunks: enumerate(zip(vectors, chunks, metadatas)),
\* ids counted from 0.
BuildPoints(vectors, chunks, metadatas) ==
  {[id |-> i - 1, vector |-> vectors[i],
    payload |-> [text |-> chunks[i], source_file |-> metadatas[i].source_file,
                 chunk_index |-> metadatas[i].chunk_index]] :
     i \in 1..Min(Len(vectors), Min(Len(chunks), Len(metadatas)))}

\* client.upsert: a point replaces the stored point of the same id.
ClientUpsert(stored, pts) ==
  {p \in stored : ~ \E q \in pts : q.id = p.id} \cup pts

\* get_google_api_key raises ValueError when GOOGLE_API_KEY is not set;
\* get_llm and get_embedding_model call it.
ConstructorRaises(keySet) == ~ keySet

\* The size and the metric create_collection_if_not_exists declares.
VectorSize == 3072
NoCollection == [exists |-> FALSE, size |-> 0, distance |-> ""]
CreatedCollection == [exists |-> TRUE, size |-> VectorSize, distance |-> "Cosine"]

\* A collection an earlier version of the code created (the commented-out
\* call declares size 1536).
OldVectorSize == 1536
OldCollection == [exists |-> TRUE, size |-> OldVectorSize, distance |-> "Cosine"]

\* recreate_collection in every call: an existing collection is dropped with
\* its records.
CreateCollectionIfNotExists_AlwaysRecreate(coll, stored, listOk, createOk) ==
  IF ~ listOk \/ ~ createOk THEN [collection |-> coll, points |-> stored]
  ELSE [collection |-> CreatedCollection, points |-> {}]

\* create_collection_if_not_exists.  listOk / createOk: whether
\* get_collections and recreate_collection succeed; their exceptions are
\* caught.  recreate_collection drops the collection of that name, if any,
\* and creates it empty.
CreateCollectionIfNotExists(coll, stored, listOk, createOk) ==
  IF ~ listOk THEN [collection |-> coll, points |-> stored]
  ELSE IF ~ coll.exists
    THEN IF createOk
           THEN [collection |-> CreatedCollection,
                 points |-> {}]
           ELSE [collection |-> coll, points |-> stored]
  ELSE [collection |-> coll, points |-> stored]

\* get_qdrant_client: ValueError when QDRANT_HOST is not set; the API key is
\* passed on as it is, set or not.
GetQdrantClientRaises(env) == ~ env["QDRANT_HOST"]

\* get_neo4j_driver: ValueError unless URI, user name and password are all
\* set; the exception of a failed verify_connectivity is raised again.
GetNeo4jDriverRaises(env, connectOk) ==
  \/ ~ (env["NEO4J_URI"] /\ env["NEO4J_USERNAME"] /\ env["NEO4J_PASSWORD"])
  \/ ~ connectOk

\* upsert_chunks.  embedOk / storeOk: whether embed_documents and
\* client.upsert succeed.  outcome: "none" (no chunks), "raised" (the
\* constructor call outside the try raised), "failed" (caught), "ok".
UpsertChunks(stored, chunks, metadatas, keySet, embedOk, storeOk) ==
  IF chunks = <<>> THEN [outcome |-> "none", points |-> stored]
  ELSE IF ConstructorRaises(keySet) THEN [outcome |-> "raised", points |-> stored]
  ELSE IF ~ embedOk \/ ~ storeOk THEN [outcome |-> "failed", points |-> stored]
  ELSE [outcome |-> "ok",
        points |-> ClientUpsert(stored,
                     BuildPoints([i \in DOMAIN chunks |-> Embed(chunks[i])], chunks, metadatas))]

\* ---------------------------------------------------------------- files
\* A file: its name, the lower-cased extension of the name, and the text its
\* extractor yields, as a sequence of segments (" " is a whitespace-only one).
Files ==
  { [name |-> "a.txt", ext |-> ".txt", text |-> <<"c1", " ", "c2">>],
    [name |-> "b.pdf", ext |-> ".pdf", text |-> <<"c3">>],
    [name |-> "n.png", ext |-> ".png", text |-> <<" ">>],
    [name |-> "x.csv", ext |-> ".csv", text |-> <<"c1">>] }

SupportedExtensions == {".pdf", ".txt", ".jpg", ".jpeg", ".png", ".mp3", ".wav"}

\* not raw_text, without the isspace() test.
NoText_EmptyOnly(raw_text) == raw_text = <<>>

\* not raw_text or raw_text.isspace()
NoText(raw_text) == raw_text = <<>> \/ \A i \in DOMAIN raw_text : raw_text[i] = " "

\* utils.chunk_text: the splitter cuts the text into segments and drops the
\* whitespace-only ones.
RECURSIVE chunk_text(_)
chunk_text(text) ==
  IF text = <<>> THEN <<>>
  ELSE IF Head(text) = " " THEN chunk_text(Tail(text))
  ELSE <<Head(text)>> \o chunk_text(Tail(text))

\* ------------------------------------------------------ entity extractor
\* What the completion service answers for a chunk, when it answers.
LlmDocs ==
  { Unparseable,
    ListDoc(<<Obj(Str("A"), Str(<<"w", " ", "f">>), Str("B"))>>),
    ListDoc(<<Obj(Str("A"), Str(<<"i", "n">>), Str("B")), Obj(Str(""), None, Str("B"))>>) }

LlmOutcomes == {[ok |-> FALSE]} \cup [ok : {TRUE}, doc : LlmDocs]

\* extract_entities_and_relationships: the response of llm.invoke as it is
\* (a message object), or the string "[]" when invoke raises.
ExtractEntitiesAndRelationships(out) ==
  IF out.ok THEN AIMessage(out.doc) ELSE PyStr(ListDoc(<<>>))

\* ------------------------------------------------------------ retrieval
\* Texts are sequences of tokens; these two are the whitespace tokens.
IsSpace(tok) == tok \in {" ", "\n"}

RECURSIVE LStrip(_)
LStrip(s) == IF s = <<>> THEN s ELSE IF IsSpace(Head(s)) THEN LStrip(Tail(s)) ELSE s

RECURSIVE RStrip(_)
RStrip(s) ==
  IF s = <<>> THEN s
  ELSE IF IsSpace(s[Len(s)]) THEN RStrip(SubSeq(s, 1, Len(s) - 1)) ELSE s

\* str.strip()
Strip(s) == RStrip(LStrip(s))

\* str.replace(tok, "")
Remove(s, tok) == SelectSeq(s, LAMBDA t : t # tok)

\* "\n".join(lines)
RECURSIVE JoinLines(_)
JoinLines(lines) ==
  IF lines = <<>> THEN <<>>
  ELSE IF Len(lines) = 1 THEN <<lines[1]>>
  ELSE <<lines[1], "\n">> \o JoinLines(Tail(lines))

\* What the completion service may answer the translator's prompt with;
\* "<fence>" stands for the three backquotes of a code fence.
CypherCompletions ==
  { <<"MATCH_EDGES">>,
    <<"<fence>cypher", "\n", "MATCH_EDGES", "\n", "<fence>">>,
    <<" ", "\n">>,
    <<"<fence>cypher", "<fence>">>,
    <<"RETURN_DATE">>,
    <<"DETACH_DELETE">>,
    <<"NOT_CYPHER">> }

TranslatorOutcomes == {[ok |-> FALSE]} \cup [ok : {TRUE}, content : CypherCompletions]

\* _generate_graph_query: the stripped response without its code fences, or
\* "" when invoke raises.
GenerateGraphQuery(out) ==
  IF ~ out.ok THEN <<>>
  ELSE Remove(Remove(Strip(out.content), "<fence>cypher"), "<fence>")

\* A value of a result row: a string, or a temporal value of the driver.
Date == [t |-> "date"]

RECURSIVE RelText(_)
RelText(type) == IF type = <<>> THEN "" ELSE Head(type) \o RelText(Tail(type))

NameOfNode(g, id) == (CHOOSE n \in g.nodes : n.id = id).name

RECURSIVE EdgeRows(_, _)
EdgeRows(g, es) ==
  IF es = {} THEN <<>>
  ELSE LET e == CHOOSE x \in es : \A y \in es : x.id <= y.id
       IN <<<<Str(NameOfNode(g, e.src)), Str(RelText(e.type)), Str(NameOfNode(g, e.dst))>>>>
            \o EdgeRows(g, es \ {e})

\* query_graph: the rows of the query, [] when running it raises.
\* MATCH_EDGES stands for a query returning source name, type and target name
\* of every edge, RETURN_DATE for one returning a temporal value; any other
\* text is not Cypher.
QueryGraph(g, cypher_query, storeOk) ==
  LET text == SelectSeq(cypher_query, LAMBDA t : ~ IsSpace(t)) IN
  IF ~ storeOk THEN <<>>
  ELSE IF text = <<"MATCH_EDGES">> THEN EdgeRows(g, g.edges)
  ELSE IF text = <<"RETURN_DATE">> THEN <<<<Date>>>>
  ELSE <<>>

\* What session.run(cypher_query) leaves in the graph: the query runs in an
\* auto-commit transaction of a session opened with the default (write) access
\* mode, so a writing query is executed and committed.  DETACH_DELETE stands
\* for MATCH (n) DETACH DELETE n.
RunQuery(g, cypher_query, storeOk) ==
  LET text == SelectSeq(cypher_query, LAMBDA t : ~ IsSpace(t)) IN
  IF storeOk /\ text = <<"DETACH_DELETE">>
    THEN [g EXCEPT !.nodes = {}, !.edges = {}]
    ELSE g

\* json.dumps(record): TypeError on a value that is not JSON-serializable.
RECURSIVE JsonDumpsValues(_)
JsonDumpsValues(row) ==
  IF row = <<>> THEN ""
  ELSE row[1].s \o (IF Len(row) > 1 THEN ", " ELSE "") \o JsonDumpsValues(Tail(row))

JsonDumps(row) ==
  IF \E k \in DOMAIN row : row[k].t # "str" THEN [raised |-> TRUE]
  ELSE [raised |-> FALSE, text |-> "{" \o JsonDumpsValues(row) \o "}"]

Questions == {"", "q1"}

\* The cosine similarity of two embedding vectors, as a rank.
Cosine(qv, v) ==
  CASE v[2] = "c2" -> 3
    [] v[2] = "c1" -> 2
    [] OTHER -> 1

RetrievalLimit == 3

\* client.search: the limit stored points most similar to the query vector,
\* most similar first.
RECURSIVE ClientSearch(_, _, _)
ClientSearch(stored, query_vector, limit) ==
  IF stored = {} \/ limit = 0 THEN <<>>
  ELSE LET best == CHOOSE p \in stored :
                     \A q \in stored :
                       \/ Cosine(query_vector, p.vector) > Cosine(query_vector, q.vector)
                       \/ /\ Cosine(query_vector, p.vector) = Cosine(query_vector, q.vector)
                          /\ p.id <= q.id
       IN <<best>> \o ClientSearch(stored \ {best}, query_vector, limit - 1)

\* semantic_search: [] for an empty query; the constructor call is outside
\* the try; a failure of embed_query or client.search gives [].
SemanticSearch(stored, query_text, keySet, searchOk, limit) ==
  IF query_text = "" THEN [raised |-> FALSE, hits |-> <<>>]
  ELSE IF ConstructorRaises(keySet) THEN [raised |-> TRUE]
  ELSE IF ~ searchOk THEN [raised |-> FALSE, hits |-> <<>>]
  ELSE [raised |-> FALSE, hits |-> ClientSearch(stored, Embed(query_text), limit)]

\* The f-string of hybrid_retrieval.
CombinedContext(semantic_context, graph_context) ==
  <<"CONTEXT FROM SEMANTIC SEARCH:", "---">> \o semantic_context
    \o <<"---", "CONTEXT FROM KNOWLEDGE GRAPH:", "---">> \o graph_context \o <<"---">>

\* The graph query is run whatever the translator returned.
ShouldQuery_Always(cypher_query) == TRUE

\* if cypher_query:
ShouldQuery(cypher_query) == cypher_query # <<>>

\* hybrid_retrieval.  raised: an exception left the function; graph: the
\* graph the call leaves.
HybridRetrieval(stored, g, user_query, keySet, searchOk, translation, storeOk) ==
  LET found == SemanticSearch(stored, user_query, keySet, searchOk, RetrievalLimit) IN
  IF found.raised THEN [raised |-> TRUE, graph |-> g]
  ELSE IF ConstructorRaises(keySet) THEN [raised |-> TRUE, graph |-> g]
  ELSE
    LET semantic_context == JoinLines([i \in DOMAIN found.hits |-> found.hits[i].payload.text])
        cypher_query == GenerateGraphQuery(translation)
        graph_results == IF ShouldQuery(cypher_query)
                           THEN QueryGraph(g, cypher_query, storeOk) ELSE <<>>
        after == IF ShouldQuery(cypher_query)
                   THEN RunQuery(g, cypher_query, storeOk) ELSE g
        dumped == [i \in DOMAIN graph_results |-> JsonDumps(graph_results[i])]
    IN IF \E i \in DOMAIN dumped : dumped[i].raised THEN [raised |-> TRUE, graph |-> after]
       ELSE [raised |-> FALSE,
             graph |-> after,
             hits |-> found.hits,
             cypher_query |-> cypher_query,
             queries |-> IF ShouldQuery(cypher_query) THEN <<cypher_query>> ELSE <<>>,
             context |-> CombinedContext(semantic_context,
                                         JoinLines([i \in DOMAIN dumped |-> dumped[i].text]))]

Apology == <<"Sorry, I encountered an error while generating the response.">>

\* What the completion service may answer the generator's prompt with.
AnswerCompletions ==
  { <<" ", "I do not have enough information to answer this question.", "\n">> }

AnswerOutcomes == {[ok |-> FALSE]} \cup [ok : {TRUE}, content : AnswerCompletions]

\* generate_response: the stripped answer, the apology when invoke raises;
\* the constructor call is outside the try.
GenerateResponse(keySet, out) ==
  IF ConstructorRaises(keySet) THEN [raised |-> TRUE]
  ELSE IF ~ out.ok THEN [raised |-> FALSE, answer |-> Apology]
  ELSE [raised |-> FALSE, answer |-> Strip(out.content)]

\* ------------------------------------------------------------------ state
VARIABLES
  apiKeySet,  \* GOOGLE_API_KEY is set in the environment
  graph,      \* the graph store
  points,     \* the vector collection: its point records
  updates,    \* number of direct update_graph_from_json calls made
  lastUpdate, \* the last update_graph_from_json call: argument, fault, graph before
  pc,         \* where ingest_file stands
  run,        \* the locals of the running (or last) ingest_file call
  runs,       \* the ingest_file calls that ended, oldest first
  written,    \* every point record some upsert has written
  asks,       \* number of questions asked
  qa,         \* the last question: where it stands and what was returned
  app,        \* the application process: its phase ("starting", "running" or
              \* "stopped") and how many times it has been started
  dbEnv,      \* which connection settings of the two stores are in the environment
  collection, \* the vector collection: whether it exists, and its configuration
  txs         \* the graph writers running concurrently, and their open transactions

vars == <<apiKeySet, graph, points, updates, lastUpdate, pc, run, runs, written, asks, qa,
          app, dbEnv, collection, txs>>
sysVars == <<app, dbEnv, collection, txs>>
askVars == <<asks, qa>>
graphVars == <<graph, updates, lastUpdate>>
ingestVars == <<points, pc, run, runs, written>>

NoUpdate == [json |-> PyStr(Unparseable), fault |-> NoFault, before |-> EmptyGraph, made |-> FALSE]
NoRun == [file |-> "", raw_text |-> <<>>, chunks |-> <<>>, i |-> 0, upsert |-> "none",
          handed |-> <<>>, trace |-> <<>>,
          start |-> [graph |-> EmptyGraph, points |-> {}]]

NoQuestion == [stage |-> "none"]

\* The connection settings app.py's startup reads from the environment.
EnvNames == {"QDRANT_HOST", "QDRANT_API_KEY", "NEO4J_URI", "NEO4J_USERNAME", "NEO4J_PASSWORD"}
EnvAllSet == [v \in EnvNames |-> TRUE]

\* The callers of update_graph_from_json that run at the same time (one per
\* browser session of the application), and a writer that has no call running.
Writers == {1, 2}
NoWriter == [items |-> <<>>, i |-> 0, stmt |-> 0, own |-> {}]
NoTxs == [w \in Writers |-> NoWriter]

\* The state in which the handlers run: the application has started, the
\* settings are in the environment and the collection has been created.
Init ==
  /\ apiKeySet \in BOOLEAN
  /\ graph = EmptyGraph
  /\ points = {}
  /\ updates = 0
  /\ lastUpdate = NoUpdate
  /\ pc = "idle"
  /\ run = NoRun
  /\ runs = <<>>
  /\ written = {}
  /\ asks = 0
  /\ qa = NoQuestion
  /\ app = [phase |-> "running", starts |-> 1]
  /\ dbEnv = EnvAllSet
  /\ collection = CreatedCollection
  /\ txs = NoTxs

\* The same state for the specifications of the graph store alone:
\* knowledge_graph.py does not read GOOGLE_API_KEY, so it is taken as set.
InitGraph == Init /\ apiKeySet

Ended == pc \in {"idle", "DONE", "SKIPPED", "RAISED"}

\* A caller hands a string to update_graph_from_json (knowledge_graph.py's
\* example usage).  The locals of the calls that ended before are gone.
UpdateCall ==
  /\ Ended
  /\ updates < MaxUpdates
  /\ \E doc \in Docs, fault \in Faults :
       /\ fault = NoFault \/ (doc.k = "list" /\ FaultHits(doc.items, fault))
       /\ graph' = UpdateGraphFromJson(graph, PyStr(doc), fault)
       /\ lastUpdate' = [json |-> PyStr(doc), fault |-> fault, before |-> graph, made |-> TRUE]
  /\ updates' = updates + 1
  /\ pc' = "idle" /\ run' = NoRun /\ qa' = NoQuestion
  /\ UNCHANGED <<sysVars, apiKeySet, points, runs, written, asks>>

\* The same call, with the arrays the completion service is modelled to
\* produce and no store failure.
UpdateCallPlain ==
  /\ Ended
  /\ updates < MaxUpdates
  /\ \E doc \in LlmDocs :
       /\ graph' = UpdateGraphFromJson(graph, PyStr(doc), NoFault)
       /\ lastUpdate' = [json |-> PyStr(doc), fault |-> NoFault, before |-> graph, made |-> TRUE]
  /\ updates' = updates + 1
  /\ pc' = "idle" /\ run' = NoRun /\ qa' = NoQuestion
  /\ UNCHANGED <<sysVars, apiKeySet, points, runs, written, asks>>

\* The objects of a well-formed list of triples: fields that are strings,
\* empty strings or missing.
TripleObjects ==
  { Obj(Str("A"), Str(<<"w", " ", "f">>), Str("B")),
    Obj(Str("B"), Str(<<"i", "n">>), Str("A")),
    Obj(Str("A"), Str(<<"w", "-", "f">>), Str("B")),
    Obj(Str("A"), Str(<<>>), Str("B")),
    Obj(Str(""), None, Str("B")) }

\* A caller hands update_graph_from_json a well-formed list of triple
\* objects, and the store does not fail.
UpdateCallTriples ==
  /\ Ended
  /\ updates < MaxUpdates
  /\ \E items \in SeqsUpTo(TripleObjects, MaxItems) :
       /\ graph' = UpdateGraphFromJson(graph, PyStr(ListDoc(items)), NoFault)
       /\ lastUpdate' = [json |-> PyStr(ListDoc(items)), fault |-> NoFault,
                         before |-> graph, made |-> TRUE]
  /\ updates' = updates + 1
  /\ pc' = "idle" /\ run' = NoRun /\ qa' = NoQuestion
  /\ UNCHANGED <<sysVars, apiKeySet, points, runs, written, asks>>

NextTriples == UpdateCallTriples

SpecTriples == InitGraph /\ [][NextTriples]_vars

\* ------------------------------------------------------------ ingest_file
EndRun(end) == [file |-> run.file.name, end |-> end, upsert |-> run.upsert,
                count |-> Cardinality(points)]

\* ingest_file is called with a file.
StartIngest ==
  /\ Ended
  /\ Len(runs) < MaxRuns
  /\ \E f \in Files :
       run' = [NoRun EXCEPT !.file = f, !.trace = <<"RECEIVED">>,
                            !.start = [graph |-> graph, points |-> points]]
  /\ pc' = "RECEIVED"
  /\ qa' = NoQuestion
  /\ UNCHANGED <<sysVars, apiKeySet, graphVars, points, runs, written, asks>>

\* Lines 64-79: pick the extractor by extension and run it; an extractor
\* that fails returns "".  An unsupported extension returns at once.
ExtractText ==
  /\ pc = "RECEIVED"
  /\ IF run.file.ext \notin SupportedExtensions
       THEN /\ pc' = "SKIPPED"
            /\ run' = [run EXCEPT !.trace = Append(@, "SKIPPED")]
            /\ runs' = Append(runs, EndRun("SKIPPED"))
       ELSE /\ \E ok \in BOOLEAN :
                 run' = [run EXCEPT !.raw_text = IF ok THEN run.file.text ELSE <<>>,
                                    !.trace = Append(@, "TEXT_EXTRACTED")]
            /\ pc' = "TEXT_EXTRACTED"
            /\ runs' = runs
  /\ UNCHANGED <<sysVars, apiKeySet, graphVars, points, written, askVars>>

\* Lines 81-89: return when there is no text, else chunk it.
ChunkText ==
  /\ pc = "TEXT_EXTRACTED"
  /\ IF NoText(run.raw_text)
       THEN /\ pc' = "SKIPPED"
            /\ run' = [run EXCEPT !.trace = Append(@, "SKIPPED")]
            /\ runs' = Append(runs, EndRun("SKIPPED"))
       ELSE /\ pc' = "CHUNKED"
            /\ run' = [run EXCEPT !.chunks = chunk_text(run.raw_text),
                                  !.trace = Append(@, "CHUNKED")]
            /\ runs' = runs
  /\ UNCHANGED <<sysVars, apiKeySet, graphVars, points, written, askVars>>

\* Lines 91-94: build the metadata and call upsert_chunks; an exception it
\* lets through ends ingest_file.
VectorUpsert ==
  /\ pc = "CHUNKED"
  /\ \E embedOk \in BOOLEAN, storeOk \in BOOLEAN :
       LET metadatas == [i \in DOMAIN run.chunks |->
                           [source_file |-> run.file.name, chunk_index |-> i - 1]]
           r == UpsertChunks(points, run.chunks, metadatas, apiKeySet, embedOk, storeOk)
       IN /\ storeOk => (collection.exists /\ collection.size = VectorSize)
          /\ points' = r.points
          /\ written' = IF r.outcome = "ok"
                          THEN written \cup BuildPoints([i \in DOMAIN run.chunks |-> Embed(run.chunks[i])],
                                                        run.chunks, metadatas)
                          ELSE written
          /\ IF r.outcome = "raised"
               THEN /\ pc' = "RAISED"
                    /\ run' = [run EXCEPT !.upsert = r.outcome]
                    /\ runs' = Append(runs, [EndRun("RAISED") EXCEPT !.upsert = r.outcome])
               ELSE /\ pc' = "VECTOR_UPSERTED"
                    /\ run' = [run EXCEPT !.upsert = r.outcome,
                                          !.trace = Append(@, "VECTOR_UPSERTED")]
                    /\ runs' = runs
  /\ UNCHANGED <<sysVars, apiKeySet, graphVars, askVars>>

\* Line 98: llm = utils.get_llm(), before the loop.
GetLlm ==
  /\ pc = "VECTOR_UPSERTED"
  /\ IF ConstructorRaises(apiKeySet)
       THEN /\ pc' = "RAISED"
            /\ runs' = Append(runs, EndRun("RAISED"))
            /\ run' = run
       ELSE /\ pc' = "GRAPH_UPDATING"
            /\ run' = [run EXCEPT !.i = 1]
            /\ runs' = runs
  /\ UNCHANGED <<sysVars, apiKeySet, graphVars, points, written, askVars>>

\* Lines 99-105, one turn of the loop: extraction of chunk i, then
\* update_graph_from_json on what the extractor returned.
ProcessChunk ==
  /\ pc = "GRAPH_UPDATING"
  /\ run.i <= Len(run.chunks)
  /\ \E out \in LlmOutcomes, fault \in Faults :
       LET structured_data_str == ExtractEntitiesAndRelationships(out) IN
       /\ fault = NoFault \/ FaultHits(ItemsOf(structured_data_str), fault)
       /\ graph' = UpdateGraphFromJson(graph, structured_data_str, fault)
       /\ lastUpdate' = [json |-> structured_data_str, fault |-> fault,
                         before |-> graph, made |-> TRUE]
       /\ run' = [run EXCEPT !.i = @ + 1,
                             !.handed = Append(@, [out |-> out, json |-> structured_data_str,
                                                   fault |-> fault])]
  /\ UNCHANGED <<sysVars, apiKeySet, updates, points, pc, runs, written, askVars>>

\* The loop is over: line 107, and ingest_file returns.
FinishIngest ==
  /\ pc = "GRAPH_UPDATING"
  /\ run.i > Len(run.chunks)
  /\ pc' = "DONE"
  /\ run' = [run EXCEPT !.trace = @ \o <<"GRAPH_UPDATED", "DONE">>]
  /\ runs' = Append(runs, EndRun("DONE"))
  /\ UNCHANGED <<sysVars, apiKeySet, graphVars, points, written, askVars>>

\* ------------------------------------------------------ question answering
\* The chat handler calls hybrid_retrieval with the question.
AskRetrieve ==
  /\ Ended
  /\ asks < MaxAsks
  /\ \E q \in Questions, searchOk \in BOOLEAN, translation \in TranslatorOutcomes,
        storeOk \in BOOLEAN :
       LET r == HybridRetrieval(points, graph, q, apiKeySet, searchOk, translation, storeOk) IN
       /\ searchOk => (collection.exists /\ collection.size = VectorSize)
       /\ qa' = IF r.raised THEN [stage |-> "raised", question |-> q]
                ELSE [stage |-> "retrieved", question |-> q, llmOk |-> translation.ok,
                      hits |-> r.hits, cypher_query |-> r.cypher_query,
                      queries |-> r.queries, context |-> r.context]
       /\ graph' = r.graph
  /\ asks' = asks + 1
  /\ pc' = "idle" /\ run' = NoRun
  /\ UNCHANGED <<sysVars, apiKeySet, updates, lastUpdate, points, runs, written>>

\* It then calls generate_response with the question and the context.
AskGenerate ==
  /\ qa.stage = "retrieved"
  /\ \E out \in AnswerOutcomes :
       LET r == GenerateResponse(apiKeySet, out) IN
       qa' = IF r.raised THEN [stage |-> "raised", question |-> qa.question]
             ELSE [qa EXCEPT !.stage = "answered"] @@ [answer |-> r.answer, answerOk |-> out.ok]
  /\ UNCHANGED <<sysVars, apiKeySet, graphVars, ingestVars, asks>>

\* ---------------------------------------------------------------- startup
\* The process starts with whatever the environment and the vector store hold.
InitApp ==
  /\ apiKeySet \in BOOLEAN
  /\ dbEnv \in [EnvNames -> BOOLEAN]
  /\ collection \in {NoCollection, CreatedCollection, OldCollection}
  /\ app = [phase |-> "starting", starts |-> 1]
  /\ graph = EmptyGraph
  /\ points = {}
  /\ updates = 0
  /\ lastUpdate = NoUpdate
  /\ pc = "idle"
  /\ run = NoRun
  /\ runs = <<>>
  /\ written = {}
  /\ asks = 0
  /\ qa = NoQuestion
  /\ txs = NoTxs

Running == app.phase = "running"

\* app.py lines 37-42: get_db_connections; any exception stops the script.
Startup ==
  /\ app.phase = "starting"
  /\ \E connectOk \in BOOLEAN, listOk \in BOOLEAN, createOk \in BOOLEAN :
       IF GetQdrantClientRaises(dbEnv) \/ GetNeo4jDriverRaises(dbEnv, connectOk)
         THEN /\ app' = [app EXCEPT !.phase = "stopped"]
              /\ UNCHANGED <<collection, points>>
         ELSE LET r == CreateCollectionIfNotExists(collection, points, listOk, createOk) IN
              /\ app' = [app EXCEPT !.phase = "running"]
              /\ collection' = r.collection
              /\ points' = r.points
  /\ UNCHANGED <<apiKeySet, graph, updates, lastUpdate, pc, run, runs, written, asks, qa,
                 dbEnv, txs>>

\* The process is started again; both stores keep what they hold, the
\* locals of the handlers are gone.
Restart ==
  /\ app.phase \in {"running", "stopped"}
  /\ Ended
  /\ app.starts < MaxStarts
  /\ app' = [phase |-> "starting", starts |-> app.starts + 1]
  /\ pc' = "idle" /\ run' = NoRun /\ qa' = NoQuestion
  /\ UNCHANGED <<apiKeySet, graph, points, updates, lastUpdate, runs, written, asks,
                 dbEnv, collection, txs>>


\* ------------------------------------------------------ concurrent writers
\* The triples the concurrent callers hand to update_graph_from_json.
WriterTriples ==
  { Obj(Str("A"), Str(<<"i", "n">>), Str("B")),
    Obj(Str("B"), Str(<<"i", "n">>), Str("A")),
    Obj(Str("A"), Str(<<"w", " ", "f">>), Str("B")) }

WriterBatches == SeqsUpTo(WriterTriples, MaxItems) \ {<<>>}

\* Two callers enter the loop of update_graph_from_json, each with its list.
BeginWriters ==
  /\ \A w \in Writers : txs[w] = NoWriter
  /\ updates = 0 /\ pc = "idle" /\ asks = 0
  /\ \E batches \in [Writers -> WriterBatches] :
       txs' = [w \in Writers |-> [NoWriter EXCEPT !.items = batches[w], !.i = 1]]
  /\ UNCHANGED <<apiKeySet, graph, points, updates, lastUpdate, pc, run, runs, written,
                 asks, qa, app, dbEnv, collection>>

\* What the open transaction of writer w reads: the committed graph and the
\* nodes the transaction created itself.  Nodes another open transaction
\* created are not visible before that transaction commits.
TxView(w) == [graph EXCEPT !.nodes = @ \cup txs[w].own]

InLoop(w) == txs[w].i \in 1..Len(txs[w].items)
CurrentItem(w) == txs[w].items[txs[w].i]

\* A MERGE of a node inside the open transaction of writer w: the node it
\* creates, if any, stays private to the transaction.
TxMergeNode(w, name, nextStmt) ==
  LET after == MergeNode(TxView(w), name) IN
  /\ txs' = [txs EXCEPT ![w].own = @ \cup (after.nodes \ TxView(w).nodes),
                        ![w].stmt = nextStmt]
  /\ graph' = [graph EXCEPT !.nextId = after.nextId]

\* Statement 1 of _add_relationship_tx in the transaction of one writer.
TxMergeSource ==
  \E w \in Writers :
    /\ InLoop(w) /\ txs[w].stmt = 0
    /\ TxMergeNode(w, CurrentItem(w).source.s, 1)
    /\ UNCHANGED <<apiKeySet, points, updates, lastUpdate, pc, run, runs, written,
                   asks, qa, app, dbEnv, collection>>

\* Statement 2.
TxMergeTarget ==
  \E w \in Writers :
    /\ InLoop(w) /\ txs[w].stmt = 1
    /\ TxMergeNode(w, CurrentItem(w).target.s, 2)
    /\ UNCHANGED <<apiKeySet, points, updates, lastUpdate, pc, run, runs, written,
                   asks, qa, app, dbEnv, collection>>

\* Statement 3 and the commit of execute_write.  The MERGE of the edge locks
\* its end nodes until the commit, so the two are one step: no other
\* transaction merges an edge between the same nodes in between.
TxMergeEdgeCommit ==
  \E w \in Writers :
    /\ InLoop(w) /\ txs[w].stmt = 2
    /\ graph' = MergeEdge(TxView(w), CurrentItem(w).source.s,
                          NormalizeRel(CurrentItem(w).relationship.s), CurrentItem(w).target.s)
    /\ txs' = [txs EXCEPT ![w].own = {}, ![w].stmt = 0, ![w].i = @ + 1]
    /\ UNCHANGED <<apiKeySet, points, updates, lastUpdate, pc, run, runs, written,
                   asks, qa, app, dbEnv, collection>>

NextWriters ==
  \/ BeginWriters
  \/ TxMergeSource
  \/ TxMergeTarget
  \/ TxMergeEdgeCommit

SpecWriters == InitGraph /\ [][NextWriters]_vars

NextGraph == UpdateCall

SpecGraph == InitGraph /\ [][NextGraph]_vars

NextIngest ==
  \/ StartIngest
  \/ ExtractText
  \/ ChunkText
  \/ VectorUpsert
  \/ GetLlm
  \/ ProcessChunk
  \/ FinishIngest

SpecIngest == Init /\ [][NextIngest]_vars

\* Ingestion, graph updates and questions in one behaviour, MaxCalls calls in all.
Budget == updates + Len(runs) + (IF pc \in {"idle", "DONE", "SKIPPED", "RAISED"} THEN 0 ELSE 1) + asks < MaxCalls

Next ==
  \/ Budget /\ UpdateCallPlain
  \/ Budget /\ StartIngest
  \/ ExtractText
  \/ ChunkText
  \/ VectorUpsert
  \/ GetLlm
  \/ ProcessChunk
  \/ FinishIngest
  \/ Budget /\ AskRetrieve
  \/ AskGenerate

Spec == Init /\ [][Next]_vars

\* The application from its start: the handlers run once it is running.
NextApp ==
  \/ Startup
  \/ Restart
  \/ Running /\ Budget /\ StartIngest
  \/ Running /\ ExtractText
  \/ Running /\ ChunkText
  \/ Running /\ VectorUpsert
  \/ Running /\ GetLlm
  \/ Running /\ ProcessChunk
  \/ Running /\ FinishIngest
  \/ Running /\ Budget /\ AskRetrieve
  \/ Running /\ AskGenerate

SpecApp == InitApp /\ [][NextApp]_vars

\* Starts of the application and ingestions between them.
NextStartup ==
  \/ Startup
  \/ Restart
  \/ Running /\ StartIngest
  \/ Running /\ ExtractText
  \/ Running /\ ChunkText
  \/ Running /\ VectorUpsert
  \/ Running /\ GetLlm
  \/ Running /\ ProcessChunk
  \/ Running /\ FinishIngest

SpecStartup == InitApp /\ [][NextStartup]_vars

\* ------------------------------------------------- graph store properties
\* The elements of a call whose transaction committed.
Applied(items, fault) ==
  {i \in 1..Len(items) :
     /\ ValidTriple(items[i])
     /\ \A j \in 1..i : items[j].k = "obj"
     /\ ~ (FaultHits(items, fault) /\ fault.item <= i)}

ExactlyOne(S) == Cardinality(S) = 1

Malformed(json_data) ==
  \/ json_data.type # "str"
  \/ json_data.text.k # "list"
  \/ \E i \in 1..Len(json_data.text.items) : json_data.text.items[i].k # "obj"

\* C4: a malformed extractor output aborts the whole batch: the graph after
\* update_graph_from_json is the graph before it.
C4_MalformedAbortsWholeBatch ==
  (lastUpdate.made /\ lastUpdate.fault = NoFault /\ Malformed(lastUpdate.json))
    => graph = lastUpdate.before

\* C5: merge_triple is atomic.  No persisted node is without an edge (nodes
\* are only ever created by merge_triple, together with the edge), and a call
\* whose transaction failed at one of the three statements leaves the graph as
\* the transactions committed before it left it.
C5_MergeTripleAtomic ==
  /\ \A n \in graph.nodes : \E e \in graph.edges : e.src = n.id \/ e.dst = n.id
  /\ (lastUpdate.made /\ FaultHits(ItemsOf(lastUpdate.json), lastUpdate.fault))
       => graph = UpdateLoop(lastUpdate.before,
                             SubSeq(ItemsOf(lastUpdate.json), 1, lastUpdate.fault.item - 1),
                             1, NoFault)

\* C5 witness: the transaction failed at the target-node merge or at the edge
\* merge, after its source-node merge had created a node.
C5_Witness ==
  /\ lastUpdate.made
  /\ FaultHits(ItemsOf(lastUpdate.json), lastUpdate.fault)
  /\ lastUpdate.fault.stmt \in {2, 3}
  /\ LET it == ItemsOf(lastUpdate.json)[lastUpdate.fault.item]
         pre == UpdateLoop(lastUpdate.before,
                           SubSeq(ItemsOf(lastUpdate.json), 1, lastUpdate.fault.item - 1),
                           1, NoFault)
     IN NodesNamed(pre, it.source.s) = {} /\ NodesNamed(graph, it.source.s) = {}

\* The edge type each relationship string of the model is to be stored under.
ExpectedType(rel) ==
  CASE rel = <<"w", " ", "f">> -> <<"W", "_", "F">>
    [] rel = <<"W", "_", "F">> -> <<"W", "_", "F">>
    [] rel = <<"i", "n">> -> <<"I", "N">>

WellFormedAnswer(h) == h.out.ok /\ h.out.doc.k = "list" /\ h.fault = NoFault

\* Every triple of an array with three non-empty fields is an edge of the
\* graph, from its source entity to its target entity, of the normalized type.
TriplesInGraph(g, items) ==
  \A k \in DOMAIN items :
    ValidTriple(items[k]) =>
      EdgesOf(g, items[k].source.s, NormalizeRel(items[k].relationship.s), items[k].target.s) # {}

\* C2: ingesting the same file twice leaves one edge per extracted triple in
\* the graph, and twice as many vector records as after the first ingestion.
C2_ReingestDuplicatesVectorsOnly ==
  (/\ Len(runs) = 2 /\ pc = "DONE"
   /\ runs[1].file = runs[2].file
   /\ runs[1].end = "DONE" /\ runs[1].upsert = "ok"
   /\ runs[2].end = "DONE" /\ runs[2].upsert = "ok")
  => /\ runs[2].count = 2 * runs[1].count
     /\ \A i \in DOMAIN run.handed :
          WellFormedAnswer(run.handed[i]) =>
            \A k \in DOMAIN run.handed[i].out.doc.items :
              LET it == run.handed[i].out.doc.items[k] IN
              ValidTriple(it) =>
                ExactlyOne(EdgesOf(graph, it.source.s, NormalizeRel(it.relationship.s), it.target.s))

\* C3: when the completion service succeeds on a chunk with a well-formed
\* array of triples, the extractor hands the graph store a string encoding
\* that array, and once ingest_file has finished every triple of it with three
\* non-empty fields is an edge of the graph.
C3_ExtractedTriplesReachGraph ==
  pc = "DONE" =>
    \A i \in DOMAIN run.handed :
      WellFormedAnswer(run.handed[i]) =>
        /\ run.handed[i].json.type = "str"
        /\ run.handed[i].json.text = run.handed[i].out.doc
        /\ TriplesInGraph(graph, run.handed[i].out.doc.items)

StatePath == <<"RECEIVED", "TEXT_EXTRACTED", "CHUNKED", "VECTOR_UPSERTED", "GRAPH_UPDATED", "DONE">>
IsPrefix(s, t) == Len(s) <= Len(t) /\ SubSeq(t, 1, Len(s)) = s

\* C8: a run of ingest_file walks RECEIVED, TEXT_EXTRACTED, CHUNKED,
\* VECTOR_UPSERTED, GRAPH_UPDATED, DONE in that order, each once; SKIPPED is
\* entered only from RECEIVED or TEXT_EXTRACTED; a run that has ended is in DONE
\* or in SKIPPED; and no graph update of the run precedes its vector upsert.
C8_IngestStateMachine ==
  pc # "idle" =>
    /\ \/ IsPrefix(run.trace, StatePath)
       \/ run.trace \in {<<"RECEIVED", "SKIPPED">>, <<"RECEIVED", "TEXT_EXTRACTED", "SKIPPED">>}
    /\ Ended => run.trace[Len(run.trace)] \in {"DONE", "SKIPPED"}
    /\ run.handed # <<>> => \E k \in DOMAIN run.trace : run.trace[k] = "VECTOR_UPSERTED"

\* Extraction or graph application failed for chunk i of the run: the
\* completion service raised, its output did not parse, or the store failed.
ChunkFailed(h) ==
  \/ ~ h.out.ok
  \/ h.out.doc.k = "invalid"
  \/ FaultHits(ItemsOf(h.json), h.fault)

\* C9: when chunk i fails, ingest_file still runs extraction and graph update
\* for every later chunk j, and the triples of those chunks are applied.
C9_LaterChunksApplied ==
  pc = "DONE" =>
    /\ Len(run.handed) = Len(run.chunks)
    /\ \A i \in DOMAIN run.handed, j \in DOMAIN run.handed :
         (i < j /\ ChunkFailed(run.handed[i]) /\ WellFormedAnswer(run.handed[j]))
           => TriplesInGraph(graph, run.handed[j].out.doc.items)

\* C10: vector records are immutable: every record an ingestion wrote is still
\* in the collection with its id, vector and payload.
C10_VectorRecordsImmutable == written \subseteq points

\* C17: a skipped ingestion has no effect.  A run on a file of an unsupported
\* extension, or whose extracted text is empty or whitespace-only, ends in
\* SKIPPED, and a run in SKIPPED has called neither upsert_chunks nor the
\* extractor nor the graph store: the vector collection and the graph are as
\* they were when ingest_file was called.
C17_SkippedHasNoEffect ==
  /\ pc = "SKIPPED" =>
        /\ run.upsert = "none" /\ run.handed = <<>> /\ run.chunks = <<>>
        /\ \A k \in DOMAIN run.trace : run.trace[k] \notin {"CHUNKED", "VECTOR_UPSERTED"}
        /\ graph = run.start.graph
        /\ points = run.start.points
  /\ (pc \notin {"idle", "RECEIVED"} /\ run.file.ext = ".csv") => pc = "SKIPPED"
  /\ (/\ pc \notin {"idle", "RECEIVED", "TEXT_EXTRACTED"}
      /\ \A k \in DOMAIN run.raw_text : run.raw_text[k] = " ")
       => pc = "SKIPPED"

\* C17 witness: a file whose text is whitespace only was skipped after its
\* text was extracted, in a collection that holds records of an earlier file.
C17_Witness ==
  /\ pc = "SKIPPED"
  /\ run.trace = <<"RECEIVED", "TEXT_EXTRACTED", "SKIPPED">>
  /\ run.raw_text # <<>>
  /\ points # {}
  /\ points = run.start.points


\* The upserts that succeeded, oldest first, each with its file name and its
\* chunks: those of the runs that ended, and that of the run under way.
UpsertHistory ==
  LET past == [k \in DOMAIN runs |->
                 [ok |-> runs[k].upsert = "ok", file |-> runs[k].file,
                  chunks |-> chunk_text((CHOOSE f \in Files : f.name = runs[k].file).text)]]
      cur == IF ~ Ended /\ run.upsert = "ok"
               THEN <<[ok |-> TRUE, file |-> run.file.name, chunks |-> run.chunks]>>
               ELSE <<>>
  IN SelectSeq(past \o cur, LAMBDA h : h.ok)

\* C18: point-id invariant.  The ids of the collection's records are exactly
\* 0..m-1, m being the largest chunk count of a successful upsert, and the
\* record of id i holds chunk i of the most recent upsert that had more than i
\* chunks: its text, its embedding, its file name and its chunk index.
C18_PointIdInvariant ==
  LET H == UpsertHistory
      m == IF H = <<>> THEN 0
           ELSE CHOOSE n \in {Len(H[k].chunks) : k \in DOMAIN H} :
                  \A k \in DOMAIN H : Len(H[k].chunks) <= n
  IN /\ {p.id : p \in points} = 0..(m - 1)
     /\ Cardinality(points) = m
     /\ \A p \in points :
          LET last == CHOOSE k \in DOMAIN H :
                        /\ Len(H[k].chunks) > p.id
                        /\ \A j \in DOMAIN H : Len(H[j].chunks) > p.id => j <= k
          IN /\ p.vector = Embed(H[last].chunks[p.id + 1])
             /\ p.payload = [text |-> H[last].chunks[p.id + 1],
                             source_file |-> H[last].file, chunk_index |-> p.id]

\* C18 witness: a one-chunk file was ingested after a two-chunk file: the
\* collection holds chunk 0 of the later file and chunk 1 of the earlier one.
C18_Witness ==
  /\ Len(UpsertHistory) = 2
  /\ Cardinality(points) = 2
  /\ \E p \in points, q \in points :
       /\ p.id = 0 /\ q.id = 1
       /\ p.payload.source_file # q.payload.source_file


\* C19: a failed vector upsert does not stop ingestion.  When the embedding
\* call or the store write inside upsert_chunks fails, no record is written,
\* ingest_file goes on to extraction and graph update for every chunk and
\* ends in DONE, and the file has its graph data: the triples the completion
\* service extracted from its chunks are in the graph.
C19_FailedUpsertDoesNotStop ==
  (pc # "idle" /\ run.upsert = "failed") =>
    /\ points = run.start.points
    /\ Ended => pc = "DONE"
    /\ pc = "DONE" =>
          /\ Len(run.handed) = Len(run.chunks)
          /\ \A i \in DOMAIN run.handed :
                WellFormedAnswer(run.handed[i]) =>
                  TriplesInGraph(graph, run.handed[i].out.doc.items)

\* The part of C19 about the flow of control alone.
FailedUpsertEndsDone ==
  (pc # "idle" /\ run.upsert = "failed") =>
    /\ points = run.start.points
    /\ Ended => pc = "DONE"
    /\ pc = "DONE" => Len(run.handed) = Len(run.chunks)

\* ---------------------------------------------------- retrieval properties
RECURSIVE IndexOf(_, _, _)
IndexOf(s, tok, from) ==
  IF from > Len(s) THEN 0 ELSE IF s[from] = tok THEN from ELSE IndexOf(s, tok, from + 1)

\* The two sections of a fused context, read back from the context string.
SemanticSection(ctx) ==
  SubSeq(ctx, 3, IndexOf(ctx, "CONTEXT FROM KNOWLEDGE GRAPH:", 1) - 2)
GraphSection(ctx) ==
  SubSeq(ctx, IndexOf(ctx, "CONTEXT FROM KNOWLEDGE GRAPH:", 1) + 2, Len(ctx) - 1)

\* C6: the question-answering path never raises: hybrid_retrieval returns a
\* context string and generate_response an answer or the apology.
C6_RetrievalNeverRaises ==
  /\ qa.stage # "raised"
  /\ qa.stage = "answered" => (~ qa.answerOk => qa.answer = Apology)

\* C7: when the translator returns the empty string, hybrid_retrieval runs no
\* query against the graph store, the knowledge-graph section of the context
\* is empty, and the semantic-search section holds the text of every vector hit.
C7_SoftFailGraphPath ==
  (qa.stage \in {"retrieved", "answered"} /\ qa.cypher_query = <<>>)
    => /\ qa.queries = <<>>
       /\ GraphSection(qa.context) = <<>>
       /\ \A i \in DOMAIN qa.hits :
            \E k \in DOMAIN SemanticSection(qa.context) :
              SemanticSection(qa.context)[k] = qa.hits[i].payload.text
       /\ qa.hits # <<>> => SemanticSection(qa.context) # <<>>

\* C7 witness: the completion service failed in the translator, the vector
\* search had hits, and the graph has edges a query would have returned.
C7_Witness ==
  /\ qa.stage = "retrieved"
  /\ ~ qa.llmOk
  /\ qa.cypher_query = <<>>
  /\ Len(qa.hits) >= 2
  /\ graph.edges # {}
\* A step of the question-answering path: hybrid_retrieval, or
\* generate_response after it.
RetrievalStep ==
  \/ asks' # asks
  \/ qa.stage = "retrieved" /\ qa'.stage \in {"answered", "raised"}

\* C12: the retrieval path is read-only on both stores: whatever the question
\* and whatever query the translator produced, hybrid_retrieval and
\* generate_response leave the nodes and edges of the graph and the records of
\* the vector collection as they were.
C12_RetrievalReadOnly ==
  [][RetrievalStep =>
       /\ graph'.nodes = graph.nodes /\ graph'.edges = graph.edges
       /\ points' = points]_vars

\* --------------------------------------------------- concurrency properties
WritersDone == \A w \in Writers : txs[w].i > Len(txs[w].items) /\ txs[w].i > 0

\* A graph as names and (source name, type, target name) triples.
NamesOf(g) == {n.name : n \in g.nodes}
TriplesOf(g) == {<<NameOfNode(g, e.src), e.type, NameOfNode(g, e.dst)>> : e \in g.edges}

\* The graph after the two lists are applied one after the other.
Sequential(first, second) ==
  UpdateLoop(UpdateLoop(EmptyGraph, txs[first].items, 1, NoFault), txs[second].items, 1, NoFault)

\* C11: whatever the interleaving of the merge transactions of two concurrent
\* callers, the final graph has at most one Entity node per name, at most one
\* edge per (source, normalized type, target), and is the graph the two lists
\* give when applied sequentially, in either order.
C11_ConcurrentMergesSafe ==
  WritersDone =>
    /\ \A name \in EntityNames : Cardinality(NodesNamed(graph, name)) <= 1
    /\ \A s \in EntityNames, t \in EntityNames, r \in RelStrings :
          Cardinality(EdgesOf(graph, s, NormalizeRel(r), t)) <= 1
    /\ \A first \in Writers : \A second \in Writers \ {first} :
          /\ NamesOf(graph) = NamesOf(Sequential(first, second))
          /\ TriplesOf(graph) = TriplesOf(Sequential(first, second))

\* ------------------------------------------------------- startup properties
\* A step in which get_db_connections ran.
StartupStep == app.phase = "starting" /\ app'.phase # "starting"

C16_ConfigErrorsStartupFatal ==
  /\ Running => (apiKeySet /\ \A v \in EnvNames : dbEnv[v])
  /\ ~ apiKeySet => (pc # "RAISED" /\ qa.stage # "raised")

\* The elements of a list whose source, relationship and target are all
\* present and non-empty.
ValidItems(items) == {i \in DOMAIN items : ValidTriple(items[i])}

\* C14: malformed-triple robustness.  Given a well-formed list of triple
\* objects, update_graph_from_json merges exactly the triples whose three
\* fields are present and non-empty: the graph after the call is the graph
\* before it plus the nodes and the edge of each of them, one node per name
\* and one edge per triple; a triple with an empty or missing field adds
\* nothing and does not keep later valid triples from being merged.
C14_MalformedTriplesSkipped ==
  lastUpdate.made =>
    LET items == ItemsOf(lastUpdate.json) IN
    /\ NamesOf(graph) = NamesOf(lastUpdate.before)
          \cup {items[i].source.s : i \in ValidItems(items)}
          \cup {items[i].target.s : i \in ValidItems(items)}
    /\ TriplesOf(graph) = TriplesOf(lastUpdate.before)
          \cup {<<items[i].source.s, NormalizeRel(items[i].relationship.s), items[i].target.s>> :
                  i \in ValidItems(items)}
    /\ Cardinality(graph.nodes) = Cardinality(NamesOf(graph))
    /\ Cardinality(graph.edges) = Cardinality(TriplesOf(graph))
====
